---- MODULE Spec2Model ----
(***************************************************************************)
(* git-cc: the conventional-commit Message model (Message::format) and the *)
(* interactive flow of run() in src/lib.rs.                                *)
(*                                                                         *)
(* Texts are TLA+ strings; push_str is \o and String::len is Len.          *)
(* The collaborators (FuzzySelect, Input, Editor, `git commit`) are        *)
(* modelled by their return values, drawn from bounded sets.               *)
(***************************************************************************)
EXTENDS Integers, Sequences, FiniteSets, TLC

VARIABLES
    pc,                 \* position of run() / create_message()
    commit_type,        \* create_message locals (lib.rs 166-170)
    scope,
    description,
    body,
    breaking_change,
    message,            \* the Message built at lib.rs 171-177
    formatted_message,  \* run(): let formatted_message (lib.rs 192)
    selection,          \* run(): let selection (lib.rs 195-200); <<>> until chosen
    editor_result,      \* Editor::edit outcome: "not_run", "some", "none", "err"
    rv,                 \* text bound by `Some(rv)` (lib.rs 208)
    commit_status,      \* Command::status outcome: "not_run", "success", "failure", "spawn_error"
    outcome,            \* "running", "returned", "exit", "panic"
    prompts,            \* history: the prompts presented to the user, in order
    answers,            \* history: what the five field prompts returned, in order
    editor_inits,       \* history: initial texts handed to Editor::edit
    commit_msgs,        \* history: texts handed to `git commit -m`
    n_format            \* history: number of Message::format calls

vars == <<pc, commit_type, scope, description, body, breaking_change, message,
          formatted_message, selection, editor_result, rv, commit_status, outcome,
          prompts, answers, editor_inits, commit_msgs, n_format>>

----------------------------------------------------------------------------
(* Bounds of the model *)

\* Message::format applied on its own: the longest text of an optional field
\* (scope, body, breaking_change) ...
MaxLen == 2
\* ... and of commit_type and description
MaxHead == 1
\* longest line the user types at a text prompt of the flow
MaxLine == 1
\* longest text the editor session hands back (besides the unchanged text)
MaxEdit == 1

\* characters of arbitrary texts (format inputs, editor output)
Chars == {"a", "\n"}
\* characters of a line typed at an Input prompt (a line holds no newline)
LineChars == {"a", "b"}

RECURSIVE Texts(_, _)
Texts(chars, n) ==
    IF n = 0 THEN {""}
    ELSE LET shorter == Texts(chars, n - 1)
         IN  shorter \cup {s \o c : s \in shorter, c \in chars}

----------------------------------------------------------------------------
(* Message model *)

Message(t, s, d, b, bc) ==
    [commit_type |-> t, scope |-> s, description |-> d, body |-> b,
     breaking_change |-> bc]

\* a plausible slip: the footer is pushed before the body paragraph
format_footer_first(self) ==
    LET m1 == "" \o self.commit_type
        m2 == IF Len(self.scope) # 0 THEN m1 \o ("(" \o self.scope \o ")") ELSE m1
        m3 == m2 \o ": "
        m4 == m3 \o self.description
        m5 == IF Len(self.breaking_change) # 0
              THEN (m4 \o "\n\n") \o ("BREAKING CHANGE: " \o self.breaking_change)
              ELSE m4
        m6 == IF Len(self.body) # 0 THEN (m5 \o "\n\n") \o self.body ELSE m5
    IN  m6

\* a plausible slip: the parentheses are pushed whether or not there is a scope
format_always_scope(self) ==
    LET m1 == "" \o self.commit_type
        m2 == m1 \o ("(" \o self.scope \o ")")
        m3 == m2 \o ": "
        m4 == m3 \o self.description
        m5 == IF Len(self.body) # 0 THEN (m4 \o "\n\n") \o self.body ELSE m4
        m6 == IF Len(self.breaking_change) # 0
              THEN (m5 \o "\n\n") \o ("BREAKING CHANGE: " \o self.breaking_change)
              ELSE m5
    IN  m6

\* Message::format, one LET per push_str
format(self) ==
    LET m1 == "" \o self.commit_type
        m2 == IF Len(self.scope) # 0 THEN m1 \o ("(" \o self.scope \o ")") ELSE m1
        m3 == m2 \o ": "
        m4 == m3 \o self.description
        m5 == IF Len(self.body) # 0 THEN (m4 \o "\n\n") \o self.body ELSE m4
        m6 == IF Len(self.breaking_change) # 0
              THEN (m5 \o "\n\n") \o ("BREAKING CHANGE: " \o self.breaking_change)
              ELSE m5
    IN  m6

----------------------------------------------------------------------------
(* Interactive flow *)

\* select_commit_type: the conventional commit types offered
selections ==
    <<"feat", "fix", "build", "chore", "ci", "docs", "perf", "refactor", "revert",
      "style", "test">>

\* run: the three choices of the decision prompt
decisions == <<"Commit with it", "Continue with editor", "Cancel">>

\* Rust's zero-based selections[selection]
Nth(list, i) == list[i + 1]

Lines == Texts(LineChars, MaxLine)

\* what an editor session can hand back: the text unchanged, or any other text
EditorTexts(initial) == {initial} \cup Texts(Chars, MaxEdit)

FieldPcs ==
    <<"select_commit_type", "write_scope", "write_description", "write_body",
      "write_breaking_change">>

PromptPcs ==
    {"select_commit_type", "write_scope", "write_description", "write_body",
     "write_breaking_change", "decide"}

NoMessage == Message("", "", "", "", "")

Init ==
    /\ pc = "select_commit_type"
    /\ commit_type = ""
    /\ scope = ""
    /\ description = ""
    /\ body = ""
    /\ breaking_change = ""
    /\ message = NoMessage
    /\ formatted_message = ""
    /\ selection = <<>>
    /\ editor_result = "not_run"
    /\ rv = ""
    /\ commit_status = "not_run"
    /\ outcome = "running"
    /\ prompts = <<>>
    /\ answers = <<>>
    /\ editor_inits = <<>>
    /\ commit_msgs = <<>>
    /\ n_format = 0

FlowUnchanged ==
    UNCHANGED <<formatted_message, selection, editor_result, rv, commit_status,
                outcome, editor_inits, commit_msgs, n_format>>

select_commit_type ==
    /\ pc = "select_commit_type"
    /\ \E i \in 0 .. Len(selections) - 1 :
         /\ commit_type' = Nth(selections, i)
         /\ answers' = Append(answers, i)
    /\ prompts' = Append(prompts, "select_commit_type")
    /\ pc' = "write_scope"
    /\ UNCHANGED <<scope, description, body, breaking_change, message>>
    /\ FlowUnchanged

write_scope ==
    /\ pc = "write_scope"
    /\ \E t \in Lines :
         /\ scope' = t
         /\ answers' = Append(answers, t)
    /\ prompts' = Append(prompts, "write_scope")
    /\ pc' = "write_description"
    /\ UNCHANGED <<commit_type, description, body, breaking_change, message>>
    /\ FlowUnchanged

\* no allow_empty(true): the prompt returns only a non-empty line
write_description ==
    /\ pc = "write_description"
    /\ \E t \in Lines \ {""} :
         /\ description' = t
         /\ answers' = Append(answers, t)
    /\ prompts' = Append(prompts, "write_description")
    /\ pc' = "write_body"
    /\ UNCHANGED <<commit_type, scope, body, breaking_change, message>>
    /\ FlowUnchanged

write_body ==
    /\ pc = "write_body"
    /\ \E t \in Lines :
         /\ body' = t
         /\ answers' = Append(answers, t)
    /\ prompts' = Append(prompts, "write_body")
    /\ pc' = "write_breaking_change"
    /\ UNCHANGED <<commit_type, scope, description, breaking_change, message>>
    /\ FlowUnchanged

\* a plausible slip: body and breaking_change change places in the Message
write_breaking_change_swapped ==
    /\ pc = "write_breaking_change"
    /\ \E t \in Lines :
         /\ breaking_change' = t
         /\ answers' = Append(answers, t)
         /\ message' = Message(commit_type, scope, description, t, body)
    /\ prompts' = Append(prompts, "write_breaking_change")
    /\ pc' = "format"
    /\ UNCHANGED <<commit_type, scope, description, body>>
    /\ FlowUnchanged

\* the last prompt of create_message, which then builds and returns the Message
write_breaking_change ==
    /\ pc = "write_breaking_change"
    /\ \E t \in Lines :
         /\ breaking_change' = t
         /\ answers' = Append(answers, t)
         /\ message' = Message(commit_type, scope, description, body, t)
    /\ prompts' = Append(prompts, "write_breaking_change")
    /\ pc' = "format"
    /\ UNCHANGED <<commit_type, scope, description, body>>
    /\ FlowUnchanged

\* run: let formatted_message = message.format()
Format ==
    /\ pc = "format"
    /\ formatted_message' = format(message)
    /\ n_format' = n_format + 1
    /\ pc' = "decide"
    /\ UNCHANGED <<commit_type, scope, description, body, breaking_change, message,
                   selection, editor_result, rv, commit_status, outcome, prompts,
                   answers, editor_inits, commit_msgs>>

\* a plausible slip: a failed commit is tried once more
commit_retries(msg) ==
    /\ \E st \in {"success", "failure", "spawn_error"} :
         /\ commit_status' = st
         /\ commit_msgs' = IF st = "failure" THEN commit_msgs \o <<msg, msg>>
                           ELSE Append(commit_msgs, msg)
         /\ outcome' = IF st = "spawn_error" THEN "panic" ELSE "returned"
    /\ pc' = "done"

\* commit(message): `git commit -m message`; .status() is Err only when git
\* could not be spawned, and .expect panics on that Err alone
commit(msg) ==
    /\ commit_msgs' = Append(commit_msgs, msg)
    /\ \E st \in {"success", "failure", "spawn_error"} :
         /\ commit_status' = st
         /\ outcome' = IF st = "spawn_error" THEN "panic" ELSE "returned"
    /\ pc' = "done"

\* process::exit(1)
exit ==
    /\ outcome' = "exit"
    /\ pc' = "done"
    /\ UNCHANGED <<commit_msgs, commit_status>>

\* .unwrap() on an Err of a collaborator
panic ==
    /\ outcome' = "panic"
    /\ pc' = "done"
    /\ UNCHANGED <<commit_msgs, commit_status>>

\* a plausible slip: the text is committed with a newline added
CommitWithIt_adds_newline ==
    /\ commit(formatted_message \o "\n")
    /\ UNCHANGED <<editor_result, rv, editor_inits>>

\* match arm 0
CommitWithIt ==
    /\ commit(formatted_message)
    /\ UNCHANGED <<editor_result, rv, editor_inits>>

\* a plausible slip: the arm asks the decision again instead of opening the editor
ContinueWithEditor_asks_again ==
    /\ pc' = "decide"
    /\ UNCHANGED <<editor_result, rv, editor_inits, commit_msgs, commit_status, outcome>>

\* match arm 1, up to the call of Editor::edit
ContinueWithEditor ==
    /\ pc' = "editor"
    /\ UNCHANGED <<editor_result, rv, editor_inits, commit_msgs, commit_status, outcome>>

\* a plausible slip: the arm does not exit and falls through to the commit
Cancel_falls_through ==
    /\ commit(formatted_message)
    /\ UNCHANGED <<editor_result, rv, editor_inits>>

\* match arm 2
Cancel ==
    /\ exit
    /\ UNCHANGED <<editor_result, rv, editor_inits>>

\* run: the decision prompt and the match on its selection
Decide ==
    /\ pc = "decide"
    /\ prompts' = Append(prompts, "decide")
    /\ \E sel \in 0 .. Len(decisions) - 1 :
         /\ selection' = <<sel>>
         /\ \/ sel = 0 /\ CommitWithIt
            \/ sel = 1 /\ ContinueWithEditor
            \/ sel = 2 /\ Cancel
    /\ UNCHANGED <<commit_type, scope, description, body, breaking_change, message,
                   formatted_message, answers, n_format>>

\* a plausible slip: the original text is committed instead of the revised one
EditorRevised_commits_original(text) ==
    /\ editor_result' = "some"
    /\ rv' = text
    /\ commit(formatted_message)

\* if let Some(rv) = ... { commit(&rv) }
EditorRevised(text) ==
    /\ editor_result' = "some"
    /\ rv' = text
    /\ commit(text)

\* a plausible slip: an aborted session falls back to the original text
EditorAborted_commits_original ==
    /\ editor_result' = "none"
    /\ rv' = rv
    /\ commit(formatted_message)

\* ... else { process::exit(1) }
EditorAborted ==
    /\ editor_result' = "none"
    /\ rv' = rv
    /\ exit

\* Editor::new().edit(&formatted_message).unwrap() and what follows it
Edit ==
    /\ pc = "editor"
    /\ editor_inits' = Append(editor_inits, formatted_message)
    /\ \/ \E text \in EditorTexts(formatted_message) : EditorRevised(text)
       \/ EditorAborted
       \/ editor_result' = "err" /\ rv' = rv /\ panic
    /\ UNCHANGED <<commit_type, scope, description, body, breaking_change, message,
                   formatted_message, selection, prompts, answers, n_format>>

\* a FuzzySelect or Input prompt returns Err (no terminal, I/O error): .unwrap() panics
PromptFails ==
    /\ pc \in PromptPcs
    /\ prompts' = Append(prompts, pc)
    /\ panic
    /\ UNCHANGED <<commit_type, scope, description, body, breaking_change, message,
                   formatted_message, selection, editor_result, rv, answers,
                   editor_inits, n_format>>

Next ==
    \/ select_commit_type
    \/ write_scope
    \/ write_description
    \/ write_body
    \/ write_breaking_change
    \/ Format
    \/ Decide
    \/ Edit
    \/ PromptFails

Spec == Init /\ [][Next]_vars

Terminated == pc = "done"

\* the status the binary's entry point ends with once run() has returned
MainReturnStatus == 0

\* the process exit status of a terminated run: process::exit(1), a Rust panic
\* (101), or the entry point returning after run()
ExitStatus ==
    CASE outcome = "exit" -> 1
      [] outcome = "panic" -> 101
      [] outcome = "returned" -> MainReturnStatus

----------------------------------------------------------------------------
(* Message::format on its own: any five texts, empty ones included *)

FormatTexts == Texts(Chars, MaxLen)

HeadTexts == Texts(Chars, MaxHead)

InitFormat ==
    /\ pc = "format"
    /\ message \in {Message(t, s, d, b, bc) :
                      t \in HeadTexts, s \in FormatTexts, d \in HeadTexts,
                      b \in FormatTexts, bc \in FormatTexts}
    /\ commit_type = message.commit_type
    /\ scope = message.scope
    /\ description = message.description
    /\ body = message.body
    /\ breaking_change = message.breaking_change
    /\ formatted_message = ""
    /\ selection = <<>>
    /\ editor_result = "not_run"
    /\ rv = ""
    /\ commit_status = "not_run"
    /\ outcome = "running"
    /\ prompts = <<>>
    /\ answers = <<>>
    /\ editor_inits = <<>>
    /\ commit_msgs = <<>>
    /\ n_format = 0

NextFormat == Format

SpecFormat == InitFormat /\ [][NextFormat]_vars

----------------------------------------------------------------------------
(* The format of section 4.1, section by section *)

ScopeSection(m) == IF m.scope = "" THEN "" ELSE "(" \o m.scope \o ")"

BodySection(m) == IF m.body = "" THEN "" ELSE "\n\n" \o m.body

FooterSection(m) ==
    IF m.breaking_change = "" THEN "" ELSE "\n\nBREAKING CHANGE: " \o m.breaking_change

SubjectLine(m) == m.commit_type \o ScopeSection(m) \o ": " \o m.description

\* C1: whatever the five fields hold, format returns commit_type, then
\* "(scope)" iff scope is non-empty, then ": ", then description, then
\* "\n\n" + body iff body is non-empty, then "\n\nBREAKING CHANGE: " +
\* breaking_change iff breaking_change is non-empty, in this order (body
\* before footer); and format can always be applied.
C1_FormatIsOrderedConcatenation ==
    /\ pc = "format" => ENABLED Format
    /\ n_format > 0 =>
         formatted_message =
             message.commit_type \o ScopeSection(message) \o ": "
                 \o message.description \o BodySection(message)
                 \o FooterSection(message)

C1_Witness ==
    /\ n_format > 0
    /\ message = Message("a", "a\n", "a", "\na", "a")
    /\ formatted_message = "a(a\n): a\n\n\na\n\nBREAKING CHANGE: a"

\* C2: each optional section is emitted iff its own field is non-empty,
\* independently of the other two, and an empty field adds no character: the
\* length of the output is the sum of the lengths of the sections present,
\* removing one field removes exactly its section, body empty with a breaking
\* change gives subject + one "\n\n" + "BREAKING CHANGE: " + breaking_change,
\* and all three empty gives commit_type + ": " + description.
C2_OmissionLaw ==
    n_format > 0 =>
      LET m == message
          out == formatted_message
          no_scope == format([m EXCEPT !.scope = ""])
          no_body == format([m EXCEPT !.body = ""])
          no_footer == format([m EXCEPT !.breaking_change = ""])
          t == Len(m.commit_type)
      IN  /\ Len(out) =
                t + Len(": ") + Len(m.description)
                  + (IF m.scope = "" THEN 0 ELSE Len("()") + Len(m.scope))
                  + (IF m.body = "" THEN 0 ELSE Len("\n\n") + Len(m.body))
                  + (IF m.breaking_change = "" THEN 0
                     ELSE Len("\n\n") + Len("BREAKING CHANGE: ")
                            + Len(m.breaking_change))
          /\ out = m.commit_type \o ScopeSection(m)
                       \o SubSeq(no_scope, t + 1, Len(no_scope))
          /\ out = SubSeq(no_body, 1, Len(SubjectLine(m))) \o BodySection(m)
                       \o SubSeq(no_body, Len(SubjectLine(m)) + 1, Len(no_body))
          /\ out = no_footer \o FooterSection(m)
          /\ m.scope = "" => out = no_scope
          /\ m.body = "" => out = no_body
          /\ m.breaking_change = "" => out = no_footer
          /\ (m.body = "" /\ m.breaking_change # "") =>
                out = SubjectLine(m) \o "\n\n" \o "BREAKING CHANGE: "
                          \o m.breaking_change
          /\ (m.scope = "" /\ m.body = "" /\ m.breaking_change = "") =>
                out = m.commit_type \o ": " \o m.description

C2_Witness ==
    /\ n_format > 0
    /\ message = Message("a", "", "a", "", "\n")
    /\ formatted_message = "a: a\n\nBREAKING CHANGE: \n"

----------------------------------------------------------------------------
(* The flow *)

\* C3: whenever the user has selected "Commit with it" (index 0), the commit
\* collaborator has been invoked, once, with exactly the text Message::format
\* returns for the five collected field values.
C3_CommitWithItCommitsFormattedText ==
    selection = <<0>> =>
      /\ commit_status # "not_run"
      /\ commit_msgs = <<formatted_message>>
      /\ formatted_message =
             format(Message(commit_type, scope, description, body, breaking_change))

C3_Witness ==
    /\ selection = <<0>>
    /\ commit_status = "success"
    /\ commit_msgs = <<"fix(a): b\n\na\n\nBREAKING CHANGE: b">>

\* C4: whenever the user has selected "Cancel" (index 2), the commit
\* collaborator has not been invoked, whatever the fields and the formatted
\* text, and the run has ended with a non-zero exit status.
C4_CancelNeverCommits ==
    selection = <<2>> =>
      /\ commit_msgs = <<>>
      /\ commit_status = "not_run"
      /\ Terminated
      /\ ExitStatus # 0

C4_Witness ==
    /\ selection = <<2>>
    /\ formatted_message = "feat(b): a\n\nb"
    /\ Terminated
    /\ ExitStatus = 1

\* C5: whenever "Continue with editor" (index 1) was selected and the editor
\* session returned no text, the commit collaborator has not been invoked and
\* the run has ended with a non-zero exit status.
C5_EditorAbortNeverCommits ==
    (selection = <<1>> /\ editor_result = "none") =>
      /\ commit_msgs = <<>>
      /\ commit_status = "not_run"
      /\ Terminated
      /\ ExitStatus # 0

C5_Witness ==
    /\ selection = <<1>>
    /\ editor_result = "none"
    /\ editor_inits = <<"docs: a">>
    /\ Terminated
    /\ ExitStatus = 1

\* C6: a terminated run has exit status 0 if and only if the commit
\* collaborator was invoked and reported success, and the commit is never
\* retried.
C6_ExitZeroIffCommitSucceeded ==
    /\ Len(commit_msgs) <= 1
    /\ Terminated => ((ExitStatus = 0) <=> (commit_status = "success"))

\* C7: once "Continue with editor" (index 1) is selected, the editor session
\* is opened with exactly the formatted text, and when it returns a text (any
\* text, the unchanged or the empty one included) the commit collaborator is
\* invoked with exactly that text.
C7_EditorTextIsCommitted ==
    /\ (selection = <<1>> /\ pc = "editor") => (editor_inits = <<>> /\ ENABLED Edit)
    /\ (selection = <<1>> /\ pc # "editor") => editor_inits = <<formatted_message>>
    /\ editor_result = "some" =>
         /\ selection = <<1>>
         /\ commit_status # "not_run"
         /\ commit_msgs = <<rv>>
         /\ rv # formatted_message => commit_msgs # <<formatted_message>>

C7_Witness ==
    /\ selection = <<1>>
    /\ editor_inits = <<"feat: a">>
    /\ editor_result = "some"
    /\ rv = ""
    /\ commit_msgs = <<"">>

\* the three terminal outcomes of section 4.2
Committed == selection = <<0>> /\ commit_msgs = <<formatted_message>>

EditingThenCommitted ==
    selection = <<1>> /\ editor_result = "some" /\ commit_msgs = <<rv>>

Aborted ==
    /\ commit_msgs = <<>>
    /\ \/ selection = <<2>>
       \/ selection = <<1>> /\ editor_result = "none"

\* a prompt or the editor returned an error instead of responding
CollaboratorFailed == outcome = "panic" /\ commit_status = "not_run"

\* CollectingFields (its five sub-states, then the formatting), Formatted, terminal
Rank ==
    CASE pc = "select_commit_type" -> 1
      [] pc = "write_scope" -> 2
      [] pc = "write_description" -> 3
      [] pc = "write_body" -> 4
      [] pc = "write_breaking_change" -> 5
      [] pc = "format" -> 6
      [] pc = "decide" -> 7
      [] pc = "editor" -> 8
      [] pc = "done" -> 9

Responds ==
    \/ select_commit_type
    \/ write_scope
    \/ write_description
    \/ write_body
    \/ write_breaking_change
    \/ Format
    \/ Decide
    \/ Edit

\* C8: a run goes CollectingFields -> Formatted -> terminal and never back:
\* while it has not ended its collaborators can respond and every step moves
\* it forward; the message is formatted exactly once before the decision,
\* which has the three choices 0, 1, 2 and is taken at most once; a run that
\* ended with its collaborators responding ended in exactly one of Committed,
\* EditingThenCommitted, Aborted; and nothing happens after the end.
C8_OneTerminalOutcome ==
    /\ [](~Terminated => ENABLED Responds)
    /\ [](Terminated => ~ENABLED Next)
    /\ [][Rank' > Rank]_vars
    /\ [](n_format <= 1)
    /\ [](Rank <= 6 => n_format = 0)
    /\ []((Rank \in {7, 8} \/ selection # <<>>) => n_format = 1)
    /\ [](selection \in {<<>>, <<0>>, <<1>>, <<2>>})
    /\ []((selection # <<>>) => (Rank > 7 /\ Len(SelectSeq(prompts, LAMBDA p : p = "decide")) = 1))
    /\ []((Terminated /\ ~CollaboratorFailed) =>
            /\ Committed \/ EditingThenCommitted \/ Aborted
            /\ ~(Committed /\ EditingThenCommitted)
            /\ ~(Committed /\ Aborted)
            /\ ~(EditingThenCommitted /\ Aborted))

C8_Witness ==
    /\ Terminated
    /\ EditingThenCommitted
    /\ rv = formatted_message
    /\ n_format = 1

\* C9: the field prompts are presented in the order commit_type, scope,
\* description, body, breaking_change, each at most once and never an earlier
\* one again; the decision prompt comes only after all five were answered; and
\* the Message that is formatted holds the five answers, commit_type being the
\* entry of the 11-item list at the selected index.
C9_FieldsCollectedInOrder ==
    /\ Len(selections) = 11
    /\ Len(answers) <= Len(FieldPcs)
    /\ Len(prompts) <= Len(FieldPcs) + 1
    /\ Len(answers) <= Len(prompts)
    /\ Len(prompts) <= Len(answers) + 1
    /\ \A i \in 1 .. Len(prompts) :
         prompts[i] = (IF i <= Len(FieldPcs) THEN FieldPcs[i] ELSE "decide")
    /\ (Rank < 6 /\ ~Terminated) => Len(answers) = Rank - 1
    /\ Rank >= 6 =>
         \/ Terminated /\ CollaboratorFailed /\ selection = <<>>
         \/ /\ Len(answers) = Len(FieldPcs)
            /\ answers[1] \in 0 .. 10
            /\ message = Message(selections[answers[1] + 1], answers[2], answers[3],
                                 answers[4], answers[5])
    /\ n_format > 0 => formatted_message = format(message)

C9_Witness ==
    /\ pc = "decide"
    /\ answers = <<10, "a", "b", "", "b">>
    /\ message = Message("test", "a", "b", "", "b")
    /\ formatted_message = "test(a): b\n\nBREAKING CHANGE: b"

\* C10: the commit collaborator is invoked at most once and only after the
\* decision prompt returned 0 or 1 (so after the five fields and the
\* formatting); the editor session is opened at most once and only after
\* choice 1.
C10_CommitAtMostOnceAfterDecision ==
    /\ Len(commit_msgs) <= 1
    /\ Len(editor_inits) <= 1
    /\ (commit_status = "not_run") <=> (commit_msgs = <<>>)
    /\ commit_msgs # <<>> =>
         /\ selection \in {<<0>>, <<1>>}
         /\ n_format = 1
         /\ Len(answers) = Len(FieldPcs)
         /\ selection = <<1>> => (editor_inits # <<>> /\ editor_result = "some")
    /\ editor_inits # <<>> => selection = <<1>>
    /\ selection = <<0>> => editor_inits = <<>>

C10_Witness ==
    /\ Len(commit_msgs) = 1
    /\ Len(editor_inits) = 1
    /\ commit_status = "failure"

====
